---- MODULE Spec2Model ----
(***************************************************************************)
(* Model of cloudcarver/edc: the conf package (FetchConfig: YAML file +    *)
(* environment overlay, merged by patchMap) and the conftext command (the  *)
(* struct walk processField / processStructFields that derives the         *)
(* environment variable paths of a config struct).                         *)
(*                                                                         *)
(* Go strings are sequences of one-character strings, so that the string   *)
(* functions the code calls (HasPrefix, Split, Replace, ToLower, Index,    *)
(* Trim, Join, ToUpper) are computed and not assumed.                      *)
(***************************************************************************)
EXTENDS Integers, Sequences, FiniteSets, TLC

---------------------------------------------------------------------------
(* Go's strings package, on sequences of characters.                       *)

LowerChars == <<"a","b","c","d","e","f","g","h","i","j","k","l","m",
                "n","o","p","q","r","s","t","u","v","w","x","y","z">>

UpperChars == <<"A","B","C","D","E","F","G","H","I","J","K","L","M",
                "N","O","P","Q","R","S","T","U","V","W","X","Y","Z">>

Digits == <<"0","1","2","3","4","5","6","7","8","9">>

ToLowerChar(c) ==
  IF \E i \in 1..26 : UpperChars[i] = c
  THEN LowerChars[CHOOSE i \in 1..26 : UpperChars[i] = c]
  ELSE c

ToUpperChar(c) ==
  IF \E i \in 1..26 : LowerChars[i] = c
  THEN UpperChars[CHOOSE i \in 1..26 : LowerChars[i] = c]
  ELSE c

ToLower(s) == [i \in 1..Len(s) |-> ToLowerChar(s[i])]

ToUpper(s) == [i \in 1..Len(s) |-> ToUpperChar(s[i])]

HasPrefix(s, p) == Len(s) >= Len(p) /\ SubSeq(s, 1, Len(p)) = p

TrimPrefix(s, p) == IF HasPrefix(s, p) THEN SubSeq(s, Len(p) + 1, Len(s)) ELSE s

\* strings.Index(s, sub): 0-based position of the first occurrence, or -1.
Index(s, sub) ==
  LET hits == { i \in 1..(Len(s) - Len(sub) + 1) : SubSeq(s, i, i + Len(sub) - 1) = sub }
  IN IF hits = {} THEN -1
     ELSE (CHOOSE i \in hits : \A j \in hits : i <= j) - 1

\* strings.Split(s, sep) for a non-empty separator.
RECURSIVE Split(_, _)
Split(s, sep) ==
  LET i == Index(s, sep) IN
  IF i = -1 THEN <<s>>
  ELSE <<SubSeq(s, 1, i)>> \o Split(SubSeq(s, i + Len(sep) + 1, Len(s)), sep)

\* strings.Replace(s, old, "", 1) for a non-empty old: the first occurrence removed.
ReplaceFirst(s, old) ==
  LET i == Index(s, old) IN
  IF i = -1 THEN s
  ELSE SubSeq(s, 1, i) \o SubSeq(s, i + Len(old) + 1, Len(s))

RECURSIVE Join(_, _)
Join(parts, sep) ==
  IF Len(parts) = 0 THEN <<>>
  ELSE IF Len(parts) = 1 THEN parts[1]
  ELSE parts[1] \o sep \o Join(Tail(parts), sep)

\* strings.Trim(s, c) for a one-character cutset.
RECURSIVE TrimLeft(_, _)
TrimLeft(s, c) ==
  IF Len(s) > 0 /\ s[1] = c THEN TrimLeft(Tail(s), c) ELSE s

RECURSIVE TrimRight(_, _)
TrimRight(s, c) ==
  IF Len(s) > 0 /\ s[Len(s)] = c THEN TrimRight(SubSeq(s, 1, Len(s) - 1), c) ELSE s

Trim(s, c) == TrimRight(TrimLeft(s, c), c)

---------------------------------------------------------------------------
(* strconv.Atoi and strconv.ParseBool.                                     *)

DigitVal(c) == (CHOOSE i \in 1..10 : Digits[i] = c) - 1

IsDigit(c) == \E i \in 1..10 : Digits[i] = c

RECURSIVE DigitsValue(_)
DigitsValue(s) ==
  IF Len(s) = 0 THEN 0
  ELSE 10 * DigitsValue(SubSeq(s, 1, Len(s) - 1)) + DigitVal(s[Len(s)])

\* Atoi: an optional sign, then one or more decimal digits; anything else
\* is a syntax error.  (Values here are far shorter than the 19 digits at
\* which Atoi can report a range error.)
Atoi(s) ==
  LET signed == Len(s) > 0 /\ s[1] \in {"+", "-"}
      body   == IF signed THEN Tail(s) ELSE s
  IN IF Len(body) = 0 \/ \E i \in 1..Len(body) : ~IsDigit(body[i])
     THEN [ok |-> FALSE, n |-> 0]
     ELSE [ok |-> TRUE,
           n  |-> IF signed /\ s[1] = "-" THEN 0 - DigitsValue(body) ELSE DigitsValue(body)]

ParseBoolTrue == { <<"1">>, <<"t">>, <<"T">>, <<"T","R","U","E">>,
                   <<"t","r","u","e">>, <<"T","r","u","e">> }

ParseBoolFalse == { <<"0">>, <<"f">>, <<"F">>, <<"F","A","L","S","E">>,
                    <<"f","a","l","s","e">>, <<"F","a","l","s","e">> }

ParseBool(s) ==
  IF s \in ParseBoolTrue THEN [ok |-> TRUE, b |-> TRUE]
  ELSE IF s \in ParseBoolFalse THEN [ok |-> TRUE, b |-> FALSE]
  ELSE [ok |-> FALSE, b |-> FALSE]

---------------------------------------------------------------------------
(* map[string]any: a Go map is a function from keys to values; a value is  *)
(* an int, a bool, a string or a nested map.                               *)

IntV(n)  == [kind |-> "int",  i |-> n]
BoolV(x) == [kind |-> "bool", b |-> x]
StrV(x)  == [kind |-> "str",  s |-> x]
MapV(f)  == [kind |-> "map",  m |-> f]

IsMap(v) == v.kind = "map"

EmptyMap == <<>>

Put(f, k, v) == [x \in (DOMAIN f) \cup {k} |-> IF x = k THEN v ELSE f[x]]


\* processField has not been called: no field.
NoField == [names |-> <<>>, type |-> [node |-> "Other", goType |-> "none"], hasTag |-> FALSE,
            tag |-> <<>>, yamlName |-> <<>>]

---------------------------------------------------------------------------
(* Package conf.                                                           *)

\* FetchConfig: the prefix used when envPrefix is empty.
DefaultPrefix == <<"C","F","G">>

\* A slip in the order of the conversions: ParseBool tried before Atoi.
coerceValueBoolFirst(value) ==
  IF ParseBool(value).ok THEN BoolV(ParseBool(value).b)
  ELSE IF Atoi(value).ok THEN IntV(Atoi(value).n)
  ELSE StrV(value)

\* parseEnvConfig's leaf: int if Atoi succeeds, else bool if ParseBool
\* succeeds, else the string itself.
coerceValue(value) ==
  IF Atoi(value).ok THEN IntV(Atoi(value).n)
  ELSE IF ParseBool(value).ok THEN BoolV(ParseBool(value).b)
  ELSE StrV(value)

\* parseEnvConfig(curCfg, key, value): the map after the call, and whether
\* the unchecked type assertion curCfg[thisKey].(map[string]any) panicked.
RECURSIVE parseEnvConfig(_, _, _)
parseEnvConfig(curCfg, key, value) ==
  LET i == Index(key, <<"_">>) IN
  IF i = -1
  THEN [cfg |-> Put(curCfg, key, coerceValue(value)), panic |-> FALSE]
  ELSE LET thisKey == SubSeq(key, 1, i)
           cur1    == IF thisKey \in DOMAIN curCfg THEN curCfg
                      ELSE Put(curCfg, thisKey, MapV(EmptyMap))
       IN IF ~IsMap(cur1[thisKey])
          THEN [cfg |-> cur1, panic |-> TRUE]
          ELSE LET r == parseEnvConfig(cur1[thisKey].m,
                                       SubSeq(key, i + 2, Len(key)), value)
               IN [cfg |-> Put(cur1, thisKey, MapV(r.cfg)), panic |-> r.panic]

\* readFromConfigEnv, one entry v = "KEY=VALUE" of os.Environ().
envKey(v, pfx) == ToLower(ReplaceFirst(Split(v, <<"=">>)[1], pfx))

envValue(v) == SubSeq(v, Len(Split(v, <<"=">>)[1]) + 2, Len(v))

readEnvEntry(cfg, v, pfx) ==
  IF HasPrefix(v, pfx)
  THEN parseEnvConfig(cfg, envKey(v, pfx), envValue(v))
  ELSE [cfg |-> cfg, panic |-> FALSE]

\* patchMap(o, p): Go ranges over p in an unspecified order and returns at
\* the first error, so the result is the set of (o, err) over all orders.
RECURSIVE patchMap(_, _)
RECURSIVE patchEntry(_, _, _)
RECURSIVE patchKeys(_, _, _)

\* A slip in the overwrite: a key the base already holds keeps its value.
assignKeyKeepsBase(o, p, k) == IF k \in DOMAIN o THEN o ELSE Put(o, k, p[k])

\* o[k] = p[k]
assignKey(o, p, k) == Put(o, k, p[k])

\* A slip in the loop body: no type check, the overlay's value replaces
\* whatever the base holds.
patchEntryUnchecked(o, p, k) ==
  IF k \in DOMAIN o /\ IsMap(o[k]) /\ IsMap(p[k])
  THEN {[o |-> Put(o, k, MapV(r.o)), err |-> r.err] :
          r \in patchMap(o[k].m, p[k].m)}
  ELSE {[o |-> Put(o, k, p[k]), err |-> FALSE]}

\* The body of patchMap's loop for the key k of p.
patchEntry(o, p, k) ==
  IF k \in DOMAIN o
  THEN IF IsMap(o[k])
       THEN IF ~IsMap(p[k])
            THEN {[o |-> o, err |-> TRUE]}
            ELSE {[o |-> Put(o, k, MapV(r.o)), err |-> r.err] :
                    r \in patchMap(o[k].m, p[k].m)}
       ELSE {[o |-> assignKey(o, p, k), err |-> FALSE]}
  ELSE {[o |-> assignKey(o, p, k), err |-> FALSE]}

\* The loop over the keys of p not yet visited.
patchKeys(o, p, ks) ==
  IF ks = {} THEN {[o |-> o, err |-> FALSE]}
  ELSE UNION { UNION { IF r.err THEN {r} ELSE patchKeys(r.o, p, ks \ {k}) :
                         r \in patchEntry(o, p, k) } : k \in ks }

patchMap(o, p) == patchKeys(o, p, DOMAIN p)

\* Key paths of a map: every key path, and the paths that end in a scalar.
RECURSIVE Paths(_)
Paths(f) ==
  UNION { {<<k>>} \cup (IF IsMap(f[k]) THEN { <<k>> \o q : q \in Paths(f[k].m) } ELSE {}) :
          k \in DOMAIN f }

RECURSIVE Has(_, _)
Has(f, q) ==
  /\ Len(q) > 0
  /\ q[1] \in DOMAIN f
  /\ (Len(q) = 1 \/ (IsMap(f[q[1]]) /\ Has(f[q[1]].m, Tail(q))))

RECURSIVE Get(_, _)
Get(f, q) == IF Len(q) = 1 THEN f[q[1]] ELSE Get(f[q[1]].m, Tail(q))

LeafPaths(f) == { q \in Paths(f) : ~IsMap(Get(f, q)) }

---------------------------------------------------------------------------
(* Bounds and inputs of the conf runs.                                     *)

MaxEnv == 2        \* entries of os.Environ()
MaxFileKeys == 3   \* keys (at any depth) of the parsed config file

ConfPath == <<"c","o","n","f",".","y","a","m","l">>

CustomPrefix == <<"M","Y">>

FileKeys == { <<"a">>, <<"b">>, <<"a","K">> }

FileLeaf == IntV(1)

MapsOver(vals) == UNION { [S -> vals] : S \in SUBSET FileKeys }

\* The mappings a YAML file can parse to: leaves and nested mappings (also
\* empty ones), two levels deep.
FileMaps ==
  { f \in MapsOver({FileLeaf} \cup { MapV(g) : g \in MapsOver({FileLeaf}) }) :
      Cardinality(Paths(f)) <= MaxFileKeys }

\* An environment variable: the prefix, an underscore or not, the segments
\* joined by underscores, "=", the value.
EnvSegs == { << <<"A">> >>, << <<"A">>, <<"B">> >>, << <<"a","K">> >> }

EnvVals == { <<"9">> }

EnvDescs == [sep : BOOLEAN, segs : EnvSegs, val : EnvVals]

EnvName(pfx, d) ==
  pfx \o (IF d.sep THEN <<"_">> ELSE <<>>) \o Join(d.segs, <<"_">>)

EnvString(pfx, d) == EnvName(pfx, d) \o <<"=">> \o d.val

OtherEnv == <<"H","O","M","E","=","x">>

EnvStrings(pfx) == { EnvString(pfx, d) : d \in EnvDescs } \cup {OtherEnv}

BoundedSeq(S, n) == UNION { [1..k -> S] : k \in 0..n }

\* os.Environ(): variables with distinct names, in any order.
Environs(pfx) ==
  { e \in BoundedSeq(EnvStrings(pfx), MaxEnv) :
      \A i, j \in 1..Len(e) :
        i # j => Split(e[i], <<"=">>)[1] # Split(e[j], <<"=">>)[1] }

EffectivePrefix(p) == IF Len(p) # 0 THEN p ELSE DefaultPrefix

---------------------------------------------------------------------------
VARIABLES
  ppc,       \* "call" before parseEnvConfig, "returned" after
  argKey,    \* parseEnvConfig's key
  argValue,  \* parseEnvConfig's value
  curCfg     \* parseEnvConfig's curCfg

coerceVars == <<ppc, argKey, argValue, curCfg>>

VARIABLES
  wpc,           \* "walk", "done", "panic" (nil dereference), "overflow"
  configStruct,  \* configStruct.Fields.List
  prefixFlag,    \* the -prefix flag (main.go's prefix)
  stack,         \* the active calls: the fields still to visit, the chain
  vars,          \* the EnvVars emitted so far
  field,         \* processField's field, once it was called
  fieldName      \* processField's fieldName

walkVars == <<wpc, configStruct, prefixFlag, stack, vars, field, fieldName>>

VARIABLES
  pc,            \* position in FetchConfig / readConfigFromPathAndEnv
  configPath,    \* FetchConfig's configPath ("" = none)
  fileState,     \* the file at configPath: "missing", "invalid" or "ok"
  fileMap,       \* what the file parses to
  envPrefix,     \* FetchConfig's envPrefix ("" = default)
  environ,       \* os.Environ()
  prefix,        \* FetchConfig's local prefix
  config,        \* readConfigFromPathAndEnv's config
  envCfg,        \* readFromConfigEnv's envCfg
  idx,           \* next entry of environ to scan
  err,           \* the error FetchConfig returns ("" = nil)
  unmarshalled   \* yaml.Unmarshal(yamlRaw, cfg) was called

confVars == <<pc, configPath, fileState, fileMap, envPrefix, environ, prefix,
              config, envCfg, idx, err, unmarshalled>>

Init ==
  /\ pc = "fetch"
  /\ configPath \in {<<>>, ConfPath}
  /\ fileState \in {"missing", "invalid", "ok"}
  /\ fileMap \in FileMaps
  /\ (configPath = <<>> => fileState = "missing")
  /\ (fileState # "ok" => fileMap = EmptyMap)
  /\ envPrefix \in {<<>>, CustomPrefix}
  /\ environ \in Environs(EffectivePrefix(envPrefix))
  /\ prefix = <<>>
  /\ config = EmptyMap
  /\ envCfg = EmptyMap
  /\ idx = 1
  /\ err = ""
  /\ unmarshalled = FALSE
  \* no parseEnvConfig run of its own
  /\ ppc = "idle"
  /\ argKey = <<>>
  /\ argValue = <<>>
  /\ curCfg = EmptyMap
  \* no conftext run
  /\ wpc = "idle"
  /\ configStruct = <<>>
  /\ prefixFlag = <<>>
  /\ stack = <<>>
  /\ vars = <<>>
  /\ field = NoField
  /\ fieldName = <<>>

\* FetchConfig, lines 29-32: the prefix.
FetchConfig ==
  /\ pc = "fetch"
  /\ prefix' = (IF Len(envPrefix) # 0 THEN envPrefix ELSE DefaultPrefix)
  /\ pc' = "read"
  /\ UNCHANGED <<configPath, fileState, fileMap, envPrefix, environ, config,
                 envCfg, idx, err, unmarshalled>>
  /\ UNCHANGED <<coerceVars, walkVars>>

\* readConfigFromPathAndEnv, lines 49-56, with readFromConfigFile.
ReadConfigFile ==
  /\ pc = "read"
  /\ \/ /\ Len(configPath) = 0
        /\ config' = EmptyMap
        /\ pc' = "scan"
        /\ err' = err
     \/ /\ Len(configPath) # 0
        /\ fileState \in {"missing", "invalid"}
        /\ config' = config
        /\ pc' = "done"
        /\ err' = "file"
     \/ /\ Len(configPath) # 0
        /\ fileState = "ok"
        /\ config' = fileMap
        /\ pc' = "scan"
        /\ err' = err
  /\ UNCHANGED <<configPath, fileState, fileMap, envPrefix, environ, prefix,
                 envCfg, idx, unmarshalled>>
  /\ UNCHANGED <<coerceVars, walkVars>>

\* readFromConfigEnv: one iteration of the loop over os.Environ().
ScanEnv ==
  /\ pc = "scan"
  /\ idx <= Len(environ)
  /\ LET r == readEnvEntry(envCfg, environ[idx], prefix) IN
       /\ envCfg' = r.cfg
       /\ pc' = (IF r.panic THEN "panic" ELSE "scan")
  /\ idx' = idx + 1
  /\ UNCHANGED <<configPath, fileState, fileMap, envPrefix, environ, prefix,
                 config, err, unmarshalled>>
  /\ UNCHANGED <<coerceVars, walkVars>>

\* readConfigFromPathAndEnv, lines 58-67: the loop is over, patchConfigMap.
PatchConfig ==
  /\ pc = "scan"
  /\ idx > Len(environ)
  /\ \E r \in patchMap(config, envCfg) :
       /\ config' = r.o
       /\ err' = (IF r.err THEN "patch" ELSE err)
       /\ pc' = (IF r.err THEN "done" ELSE "unmarshal")
  /\ UNCHANGED <<configPath, fileState, fileMap, envPrefix, environ, prefix,
                 envCfg, idx, unmarshalled>>
  /\ UNCHANGED <<coerceVars, walkVars>>

\* FetchConfig, line 37: marshallRawYAML; the decoder may reject the
\* merged mapping for the target's shape.
Unmarshal ==
  /\ pc = "unmarshal"
  /\ unmarshalled' = TRUE
  /\ pc' = "done"
  /\ \/ err' = err
     \/ err' = "unmarshal"
  /\ UNCHANGED <<configPath, fileState, fileMap, envPrefix, environ, prefix,
                 config, envCfg, idx>>
  /\ UNCHANGED <<coerceVars, walkVars>>

---------------------------------------------------------------------------
(* parseEnvConfig on its own: one call on an empty map.                    *)

MaxValLen == 4     \* length of the environment value

CoerceAlphabet == {"t","r","u","e","T","R","U","E","1","-"}

\* Values outside the alphabet or longer than MaxValLen.
ExtraValues ==
  { <<"4","2">>, <<"+","7">>, <<"0">>, <<"0","0","7">>, <<"1","x">>,
    <<"f">>, <<"F">>, <<"f","a","l","s","e">>, <<"F","A","L","S","E">>,
    <<"F","a","l","s","e">>, <<"f","A","L","S","E">>, <<"f","a","l","s","E">>,
    <<"h","e","l","l","o">>, <<"y","e","s">>, <<"n","o">>, <<"1",".","5">> }

CoerceValues == BoundedSeq(CoerceAlphabet, MaxValLen) \cup ExtraValues

CoerceKeys == { <<"k">>, <<"a","_","k">> }

InitCoerce ==
  /\ ppc = "call"
  /\ argKey = <<>>
  /\ argValue \in CoerceValues
  /\ curCfg = EmptyMap
  \* no FetchConfig run
  /\ pc = "idle"
  /\ configPath = <<>>
  /\ fileState = "missing"
  /\ fileMap = EmptyMap
  /\ envPrefix = <<>>
  /\ environ = <<>>
  /\ prefix = <<>>
  /\ config = EmptyMap
  /\ envCfg = EmptyMap
  /\ idx = 1
  /\ err = ""
  /\ unmarshalled = FALSE
  \* no conftext run
  /\ wpc = "idle"
  /\ configStruct = <<>>
  /\ prefixFlag = <<>>
  /\ stack = <<>>
  /\ vars = <<>>
  /\ field = NoField
  /\ fieldName = <<>>

ParseEnvConfig ==
  /\ ppc = "call"
  /\ \E key \in CoerceKeys :
       /\ argKey' = key
       /\ curCfg' = parseEnvConfig(curCfg, key, argValue).cfg
  /\ ppc' = "returned"
  /\ UNCHANGED argValue
  /\ UNCHANGED <<confVars, walkVars>>

NextCoerce == ParseEnvConfig

---------------------------------------------------------------------------
(* Command conftext: the syntax tree of the scanned file.                  *)
(*                                                                         *)
(* A type expression is an ast.Ident, ast.StarExpr, ast.SelectorExpr,      *)
(* ast.StructType or another node.  A field (an ast.Field) has its Names,  *)
(* its Type and its Tag: hasTag is FALSE when field.Tag is nil, tag is     *)
(* Tag.Value (the back quote is written BACKQUOTE).  yamlName is not read  *)
(* by the walk: it records the name the tag's author wrote after yaml:,    *)
(* for the properties to compare with.                                     *)

Ident(n) == [node |-> "Ident", name |-> n]
Star(x) == [node |-> "StarExpr", x |-> x]
Selector(x, sel) == [node |-> "SelectorExpr", pkg |-> x, sel |-> sel]
StructType(fs) == [node |-> "StructType", fields |-> fs]
OtherExpr(t) == [node |-> "Other", goType |-> t]

HostField ==
  [names |-> <<<<"H","o","s","t">>>>,
   type |-> Ident("string"),
   hasTag |-> TRUE,
   tag |-> <<"BACKQUOTE","y","a","m","l",":","\"","h","o","s","t",",","o","m","i","t","e","m","p","t","y","\"","BACKQUOTE">>,
   yamlName |-> <<"h","o","s","t">>]

DbPortField ==
  [names |-> <<<<"P","o","r","t">>>>,
   type |-> Ident("int"),
   hasTag |-> TRUE,
   tag |-> <<"BACKQUOTE","y","a","m","l",":","\"","p","o","r","t","\"","BACKQUOTE">>,
   yamlName |-> <<"p","o","r","t">>]

NextField ==
  [names |-> <<<<"N","e","x","t">>>>,
   type |-> Star(Ident("Node")),
   hasTag |-> TRUE,
   tag |-> <<"BACKQUOTE","y","a","m","l",":","\"","n","e","x","t","\"","BACKQUOTE">>,
   yamlName |-> <<"n","e","x","t">>]

VField ==
  [names |-> <<<<"V">>>>,
   type |-> Ident("int"),
   hasTag |-> TRUE,
   tag |-> <<"BACKQUOTE","y","a","m","l",":","\"","v","\"","BACKQUOTE">>,
   yamlName |-> <<"v">>]

PongField ==
  [names |-> <<<<"P","o","n","g">>>>,
   type |-> Star(Ident("Pong")),
   hasTag |-> TRUE,
   tag |-> <<"BACKQUOTE","y","a","m","l",":","\"","p","o","n","g","\"","BACKQUOTE">>,
   yamlName |-> <<"p","o","n","g">>]

PingBackField ==
  [names |-> <<<<"P","i","n","g">>>>,
   type |-> Star(Ident("Ping")),
   hasTag |-> TRUE,
   tag |-> <<"BACKQUOTE","y","a","m","l",":","\"","p","i","n","g","\"","BACKQUOTE">>,
   yamlName |-> <<"p","i","n","g">>]

LogLevelField ==
  [names |-> <<<<"L","e","v","e","l">>>>,
   type |-> Ident("string"),
   hasTag |-> TRUE,
   tag |-> <<"BACKQUOTE","y","a","m","l",":","\"","l","e","v","e","l","\"","BACKQUOTE">>,
   yamlName |-> <<"l","e","v","e","l">>]

\* The struct types the file declares beside Config (t.Obj.Decl of an
\* identifier): the fixture's Database and Cache, a struct that points to
\* itself and two that point to each other.
Decls ==
  [ Database |-> StructType(<<HostField, DbPortField>>),
    Cache    |-> StructType(<<>>),
    Node     |-> StructType(<<NextField, VField>>),
    Ping     |-> StructType(<<PongField>>),
    Pong     |-> StructType(<<PingBackField>>) ]

\* Database Database `yaml:"database"`
DatabaseField ==
  [names |-> <<<<"D","a","t","a","b","a","s","e">>>>,
   type |-> Ident("Database"),
   hasTag |-> TRUE,
   tag |-> <<"BACKQUOTE","y","a","m","l",":","\"","d","a","t","a","b","a","s","e","\"","BACKQUOTE">>,
   yamlName |-> <<"d","a","t","a","b","a","s","e">>]

\* Port int `yaml:"port"`
PortField ==
  [names |-> <<<<"P","o","r","t">>>>,
   type |-> Ident("int"),
   hasTag |-> TRUE,
   tag |-> <<"BACKQUOTE","y","a","m","l",":","\"","p","o","r","t","\"","BACKQUOTE">>,
   yamlName |-> <<"p","o","r","t">>]

\* Cache *Cache `yaml:"cache"`
CacheField ==
  [names |-> <<<<"C","a","c","h","e">>>>,
   type |-> Star(Ident("Cache")),
   hasTag |-> TRUE,
   tag |-> <<"BACKQUOTE","y","a","m","l",":","\"","c","a","c","h","e","\"","BACKQUOTE">>,
   yamlName |-> <<"c","a","c","h","e">>]

\* Name string   (no tag)
NameField ==
  [names |-> <<<<"N","a","m","e">>>>,
   type |-> Ident("string"),
   hasTag |-> FALSE,
   tag |-> <<>>,
   yamlName |-> <<>>]

\* A, B int `yaml:",omitempty"`
PairField ==
  [names |-> <<<<"A">>, <<"B">>>>,
   type |-> Ident("int"),
   hasTag |-> TRUE,
   tag |-> <<"BACKQUOTE","y","a","m","l",":","\"",",","o","m","i","t","e","m","p","t","y","\"","BACKQUOTE">>,
   yamlName |-> <<>>]

\* Node *Node `yaml:"node"`
NodeField ==
  [names |-> <<<<"N","o","d","e">>>>,
   type |-> Star(Ident("Node")),
   hasTag |-> TRUE,
   tag |-> <<"BACKQUOTE","y","a","m","l",":","\"","n","o","d","e","\"","BACKQUOTE">>,
   yamlName |-> <<"n","o","d","e">>]

\* Ping Ping `yaml:"ping"`
PingField ==
  [names |-> <<<<"P","i","n","g">>>>,
   type |-> Ident("Ping"),
   hasTag |-> TRUE,
   tag |-> <<"BACKQUOTE","y","a","m","l",":","\"","p","i","n","g","\"","BACKQUOTE">>,
   yamlName |-> <<"p","i","n","g">>]

\* Debug bool `json:"debug"`
DebugField ==
  [names |-> <<<<"D","e","b","u","g">>>>,
   type |-> Ident("bool"),
   hasTag |-> TRUE,
   tag |-> <<"BACKQUOTE","j","s","o","n",":","\"","d","e","b","u","g","\"","BACKQUOTE">>,
   yamlName |-> <<>>]

\* Database `yaml:",inline"`   (embedded)
EmbeddedField ==
  [names |-> <<>>,
   type |-> Ident("Database"),
   hasTag |-> TRUE,
   tag |-> <<"BACKQUOTE","y","a","m","l",":","\"",",","i","n","l","i","n","e","\"","BACKQUOTE">>,
   yamlName |-> <<>>]

\* Timeout time.Duration `yaml:"timeout"`
TimeoutField ==
  [names |-> <<<<"T","i","m","e","o","u","t">>>>,
   type |-> Selector("time", "Duration"),
   hasTag |-> TRUE,
   tag |-> <<"BACKQUOTE","y","a","m","l",":","\"","t","i","m","e","o","u","t","\"","BACKQUOTE">>,
   yamlName |-> <<"t","i","m","e","o","u","t">>]

\* Tags []string `yaml:"tags"`
TagsField ==
  [names |-> <<<<"T","a","g","s">>>>,
   type |-> OtherExpr("ast.ArrayType"),
   hasTag |-> TRUE,
   tag |-> <<"BACKQUOTE","y","a","m","l",":","\"","t","a","g","s","\"","BACKQUOTE">>,
   yamlName |-> <<"t","a","g","s">>]

\* Level *int `yaml:"level"`
LevelField ==
  [names |-> <<<<"L","e","v","e","l">>>>,
   type |-> Star(Ident("int")),
   hasTag |-> TRUE,
   tag |-> <<"BACKQUOTE","y","a","m","l",":","\"","l","e","v","e","l","\"","BACKQUOTE">>,
   yamlName |-> <<"l","e","v","e","l">>]

\* Log struct { Level string `yaml:"level"` } `yaml:"log"`
LogField ==
  [names |-> <<<<"L","o","g">>>>,
   type |-> StructType(<<LogLevelField>>),
   hasTag |-> TRUE,
   tag |-> <<"BACKQUOTE","y","a","m","l",":","\"","l","o","g","\"","BACKQUOTE">>,
   yamlName |-> <<"l","o","g">>]

\* The fields Config is declared with are drawn from these.
FieldCandidates ==
  { DatabaseField, PortField, CacheField, NameField,
    PairField, NodeField, PingField, DebugField,
    EmbeddedField, TimeoutField, TagsField, LevelField,
    LogField }

---------------------------------------------------------------------------
(* Command conftext: the walk.                                             *)

MaxFields == 3     \* fields of the Config struct
MaxStack == 5      \* nested calls the goroutine stack holds before the
                   \* runtime aborts with a stack overflow

AppPrefix == <<"M","Y","A","P","P">>

Primitives == { <<"string">>, <<"int">>, <<"bool">> }

\* A type string is the sequence of its tokens: "*", a name, ".".
isPrimitiveType(typeStr) == TrimPrefix(typeStr, <<"*">>) \in Primitives

\* The tag's part that starts with yaml:, if any.
yamlPart(parts) ==
  LET hits == { i \in 1..Len(parts) : HasPrefix(parts[i], <<"y","a","m","l",":">>) }
  IN IF hits = {} THEN <<>>
     ELSE <<parts[CHOOSE i \in hits : \A j \in hits : i <= j]>>

getYAMLTag(tag) ==
  IF tag = <<>> THEN <<>>
  ELSE LET part == yamlPart(Split(Trim(tag, "BACKQUOTE"), <<" ">>))
       IN IF part = <<>> THEN <<>>
          ELSE Split(Trim(Split(part[1], <<":">>)[2], "\""), <<",">>)[1]

RECURSIVE getTypeString(_)
getTypeString(expr) ==
  CASE expr.node = "Ident" -> <<expr.name>>
    [] expr.node = "StarExpr" -> <<"*">> \o getTypeString(expr.x)
    [] expr.node = "SelectorExpr" -> <<expr.pkg, ".", expr.sel>>
    [] expr.node = "StructType" -> <<"*", "ast.StructType">>
    [] OTHER -> <<"*", expr.goType>>

\* processStructFields(field, chain, vars), by the kind of type expression:
\* append EnvVar{chain} ("emit"), call processField on each field of a
\* struct ("descend"), or nothing ("none").
RECURSIVE processStructFields(_)
processStructFields(t) ==
  CASE t.node = "Ident" ->
         IF isPrimitiveType(<<t.name>>) THEN [act |-> "emit", fields |-> <<>>]
         ELSE IF t.name \in DOMAIN Decls
              THEN [act |-> "descend", fields |-> Decls[t.name].fields]
              ELSE [act |-> "none", fields |-> <<>>]
    [] t.node = "StarExpr" ->
         IF isPrimitiveType(getTypeString(t.x)) THEN [act |-> "emit", fields |-> <<>>]
         ELSE processStructFields(t.x)
    [] t.node = "SelectorExpr" -> [act |-> "emit", fields |-> <<>>]
    [] t.node = "StructType" -> [act |-> "descend", fields |-> t.fields]
    [] OTHER -> [act |-> "none", fields |-> <<>>]

\* processField, lines 143-147.
segmentOf(f) ==
  IF getYAMLTag(f.tag) = <<>> THEN ToLower(f.names[1]) ELSE getYAMLTag(f.tag)

ChainNames(e) == [i \in 1..Len(e.Chain) |-> e.Chain[i].Name]

\* EnvVar.Path and EnvVar.YAMLPath
Path(e) ==
  ToUpper(Join((IF prefixFlag # <<>> THEN <<prefixFlag>> ELSE <<>>) \o ChainNames(e),
               <<"_">>))

YAMLPath(e) == Join(ChainNames(e), <<".">>)

InitWalk ==
  /\ wpc = "walk"
  /\ configStruct \in BoundedSeq(FieldCandidates, MaxFields)
  /\ prefixFlag \in {<<>>, AppPrefix}
  /\ stack = <<[fields |-> configStruct, chain |-> <<>>]>>
  /\ vars = <<>>
  /\ field = NoField
  /\ fieldName = <<>>
  \* no FetchConfig run
  /\ pc = "idle"
  /\ configPath = <<>>
  /\ fileState = "missing"
  /\ fileMap = EmptyMap
  /\ envPrefix = <<>>
  /\ environ = <<>>
  /\ prefix = <<>>
  /\ config = EmptyMap
  /\ envCfg = EmptyMap
  /\ idx = 1
  /\ err = ""
  /\ unmarshalled = FALSE
  \* no parseEnvConfig run of its own
  /\ ppc = "idle"
  /\ argKey = <<>>
  /\ argValue = <<>>
  /\ curCfg = EmptyMap

Top == stack[Len(stack)]

\* The caller's loop moves on to its next field.
Advance == [stack EXCEPT ![Len(stack)].fields = Tail(@)]

\* processField(f, Top.chain, vars) with the processStructFields call it
\* ends with; a struct's fields are visited by the steps that follow.
ProcessField ==
  /\ wpc = "walk"
  /\ Len(stack) > 0
  /\ Top.fields # <<>>
  /\ LET f == Head(Top.fields) IN
       /\ field' = f
       /\ IF f.names # <<>> /\ ~f.hasTag
          THEN \* field.Tag.Value with field.Tag = nil
               /\ wpc' = "panic"
               /\ fieldName' = <<>>
               /\ UNCHANGED <<stack, vars>>
          ELSE LET name  == IF f.names = <<>> THEN <<>> ELSE segmentOf(f)
                   chain == IF f.names = <<>> THEN Top.chain
                            ELSE Append(Top.chain,
                                        [Name |-> name, Type |-> getTypeString(f.type)])
                   r     == processStructFields(f.type)
               IN /\ fieldName' = name
                  /\ CASE r.act = "emit" ->
                            /\ vars' = Append(vars, [Chain |-> chain])
                            /\ stack' = Advance
                            /\ wpc' = wpc
                       [] r.act = "descend" /\ Len(stack) < MaxStack ->
                            /\ stack' = Append(Advance, [fields |-> r.fields, chain |-> chain])
                            /\ UNCHANGED <<vars, wpc>>
                       [] r.act = "descend" /\ Len(stack) >= MaxStack ->
                            /\ wpc' = "overflow"
                            /\ UNCHANGED <<stack, vars>>
                       [] OTHER ->
                            /\ stack' = Advance
                            /\ UNCHANGED <<vars, wpc>>
  /\ UNCHANGED <<configStruct, prefixFlag>>
  /\ UNCHANGED <<confVars, coerceVars>>

\* The loop over a struct's fields is over: return to the caller; main's
\* own loop ends the walk.
ReturnFromStruct ==
  /\ wpc = "walk"
  /\ Len(stack) > 0
  /\ Top.fields = <<>>
  /\ stack' = SubSeq(stack, 1, Len(stack) - 1)
  /\ wpc' = (IF Len(stack) = 1 THEN "done" ELSE "walk")
  /\ UNCHANGED <<configStruct, prefixFlag, vars, field, fieldName>>
  /\ UNCHANGED <<confVars, coerceVars>>

NextWalk == ProcessField \/ ReturnFromStruct

---------------------------------------------------------------------------
vars_all == <<confVars, coerceVars, walkVars>>

\* FetchConfig on a config file and an environment.
Next == FetchConfig \/ ReadConfigFile \/ ScanEnv \/ PatchConfig \/ Unmarshal

Spec == Init /\ [][Next]_vars_all

\* parseEnvConfig on one value.
SpecCoerce == InitCoerce /\ [][NextCoerce]_vars_all

\* conftext on a Config struct.
SpecWalk == InitWalk /\ [][NextWalk]_vars_all

---------------------------------------------------------------------------
(* Properties of the merge (under Spec).                                   *)

\* patchMap has run: readConfigFromPathAndEnv is past patchConfigMap.
Patched == pc = "unmarshal" \/ (pc = "done" /\ err # "file")

\* readConfigFromPathAndEnv produced a merged mapping.
Merged == pc = "unmarshal" \/ (pc = "done" /\ err \in {"", "unmarshal"})

\* A key path both mappings have, a subtree in one and a scalar in the other.
SubtreeUnderScalar(base, overlay) ==
  \E q \in Paths(base) \cap Paths(overlay) :
     IsMap(Get(base, q)) /\ ~IsMap(Get(overlay, q))

ScalarUnderSubtree(base, overlay) ==
  \E q \in Paths(base) \cap Paths(overlay) :
     ~IsMap(Get(base, q)) /\ IsMap(Get(overlay, q))

\* The only variable of the environment that starts with the prefix is
\* PREFIX_S1_..._Sn=V, written with the separator.
OnlyPrefixedVar(d) ==
  /\ d.sep
  /\ \E i \in 1..Len(environ) :
       /\ environ[i] = EnvString(prefix, d)
       /\ \A j \in 1..Len(environ) : j # i => ~HasPrefix(environ[j], prefix)

\* s1.s2...sn, lower-cased.
LowerPath(d) == [i \in 1..Len(d.segs) |-> ToLower(d.segs[i])]

\* The same path with the last segment as written in the variable's name.
CamelPath(d) ==
  [i \in 1..Len(d.segs) |-> IF i = Len(d.segs) THEN d.segs[i] ELSE ToLower(d.segs[i])]

IsPathPrefix(q, r) == Len(q) <= Len(r) /\ SubSeq(r, 1, Len(q)) = q

\* C1: when the merge succeeds and PREFIX_S1_..._Sn=V is the only prefixed
\* variable, the merged mapping holds the coerced V at the lower-cased path
\* s1...sn from the top level, and every file leaf off that path is
\* unchanged.
C1_EnvValueAtPath ==
  Merged =>
    \A d \in EnvDescs :
      OnlyPrefixedVar(d) =>
        /\ Has(config, LowerPath(d))
        /\ Get(config, LowerPath(d)) = coerceValue(d.val)
        /\ \A q \in LeafPaths(fileMap) :
             ~IsPathPrefix(q, LowerPath(d)) =>
               Has(config, q) /\ Get(config, q) = Get(fileMap, q)

\* C2: once patchMap has run on a file mapping that holds a subtree where
\* the environment mapping holds a scalar, FetchConfig has returned the
\* patch error and yaml.Unmarshal was never called on the target.
C2_SubtreeConflictIsError ==
  (Patched /\ SubtreeUnderScalar(fileMap, envCfg)) =>
    (pc = "done" /\ err = "patch" /\ ~unmarshalled)

C2_Witness ==
  /\ pc = "done"
  /\ err = "patch"
  /\ ~unmarshalled
  /\ SubtreeUnderScalar(fileMap, envCfg)
  /\ envCfg # EmptyMap

\* C3: after a merge without any scalar/subtree conflict, every leaf path of
\* the overlay holds the overlay's value, every leaf path of the base alone
\* keeps the base's value, the merged mapping has no key path that neither
\* had, and an empty overlay leaves the base as it was.
C3_MergeAgainstReference ==
  (Merged /\ ~SubtreeUnderScalar(fileMap, envCfg)
          /\ ~ScalarUnderSubtree(fileMap, envCfg)) =>
    /\ \A q \in LeafPaths(envCfg) :
         Has(config, q) /\ Get(config, q) = Get(envCfg, q)
    /\ \A q \in LeafPaths(fileMap) \ LeafPaths(envCfg) :
         Has(config, q) /\ Get(config, q) = Get(fileMap, q)
    /\ Paths(config) = Paths(fileMap) \cup Paths(envCfg)
    /\ (envCfg = EmptyMap => config = fileMap)

C3_Witness ==
  /\ Merged
  /\ ~SubtreeUnderScalar(fileMap, envCfg)
  /\ ~ScalarUnderSubtree(fileMap, envCfg)
  /\ \E q \in LeafPaths(envCfg) \cap LeafPaths(fileMap) :
       Len(q) = 2 /\ Get(config, q) = Get(envCfg, q) /\ Get(envCfg, q) # Get(fileMap, q)
  /\ LeafPaths(fileMap) \ Paths(envCfg) # {}
  /\ LeafPaths(envCfg) \ Paths(fileMap) # {}

\* C5: with every prefixed variable written PREFIX_S1_..._Sn=V, in any
\* order, FetchConfig never aborts with a runtime fault while building the
\* overlay or merging.
C5_NoRuntimeFault ==
  (\A i \in 1..Len(environ) :
      HasPrefix(environ[i], EffectivePrefix(envPrefix)) =>
        HasPrefix(environ[i], EffectivePrefix(envPrefix) \o <<"_">>))
    => pc # "panic"

\* C6: when the merge succeeds, PREFIX_..._camelKey=V is the only prefixed
\* variable and the file has a leaf at that path with the key camelKey as
\* written, the merged mapping holds the coerced V at that file key.
C6_CamelCaseKeyOverridden ==
  Merged =>
    \A d \in EnvDescs :
      (/\ OnlyPrefixedVar(d)
       /\ CamelPath(d) # LowerPath(d)
       /\ CamelPath(d) \in LeafPaths(fileMap)) =>
        Get(config, CamelPath(d)) = coerceValue(d.val)

\* C7: once patchMap has run on a file mapping that holds a scalar where
\* the environment mapping holds a subtree, it has reported an error; and
\* no leaf of the file mapping is a subtree of the merged mapping.
C7_LeafNeverBecomesSubtree ==
  Patched =>
    /\ ScalarUnderSubtree(fileMap, envCfg) => err = "patch"
    /\ \A q \in LeafPaths(fileMap) : ~(Has(config, q) /\ IsMap(Get(config, q)))

---------------------------------------------------------------------------
(* Properties of the coercion (under SpecCoerce).                          *)

\* The leaf parseEnvConfig stored for argKey.
StoredLeaf == Get(curCfg, Split(argKey, <<"_">>))

\* A base-10 integer literal: an optional sign, then digits only.
LiteralBody(v) == IF Len(v) > 0 /\ v[1] \in {"+", "-"} THEN Tail(v) ELSE v

IsIntLiteral(v) ==
  /\ Len(LiteralBody(v)) > 0
  /\ \A i \in 1..Len(LiteralBody(v)) :
       LiteralBody(v)[i] \in {"0","1","2","3","4","5","6","7","8","9"}

RECURSIVE PlaceValue(_)
PlaceValue(b) ==
  IF b = <<>> THEN 0
  ELSE DigitVal(Head(b)) * 10^(Len(b) - 1) + PlaceValue(Tail(b))

LiteralValue(v) ==
  IF Len(v) > 0 /\ v[1] = "-" THEN 0 - PlaceValue(LiteralBody(v))
  ELSE PlaceValue(LiteralBody(v))

WordTrue == <<"t","r","u","e">>
WordFalse == <<"f","a","l","s","e">>

\* C4 as claimed: the leaf is the integer for an integer literal, else a
\* boolean exactly when the value is the word true or false in any letter
\* case, else the string unchanged.
C4_CoercionAnyCase ==
  ppc = "returned" =>
    StoredLeaf =
      (IF IsIntLiteral(argValue) THEN IntV(LiteralValue(argValue))
       ELSE IF ToLower(argValue) \in {WordTrue, WordFalse}
            THEN BoolV(ToLower(argValue) = WordTrue)
            ELSE StrV(argValue))

\* C4 amended: the leaf is the integer for an integer literal, else a boolean
\* exactly when the value is one of t, T, true, TRUE, True (true) or
\* f, F, false, FALSE, False (false), else the string unchanged.
C4_CoercionParseBoolWords ==
  ppc = "returned" =>
    StoredLeaf =
      (IF IsIntLiteral(argValue) THEN IntV(LiteralValue(argValue))
       ELSE IF argValue \in { <<"t">>, <<"T">>, <<"t","r","u","e">>,
                              <<"T","R","U","E">>, <<"T","r","u","e">> }
            THEN BoolV(TRUE)
       ELSE IF argValue \in { <<"f">>, <<"F">>, <<"f","a","l","s","e">>,
                              <<"F","A","L","S","E">>, <<"F","a","l","s","e">> }
            THEN BoolV(FALSE)
       ELSE StrV(argValue))

C4_Witness ==
  /\ ppc = "returned"
  /\ argKey = <<"a","_","k">>
  /\ argValue = <<"T","r","u","e">>
  /\ StoredLeaf = BoolV(TRUE)

---------------------------------------------------------------------------
(* Properties of the walk (under SpecWalk).                                *)

\* The segment of the declared name n of field f: the name written after
\* yaml: when there is one, else n lower-cased.
RefSegment(f, n) == IF f.yamlName # <<>> THEN f.yamlName ELSE ToLower(n)

RefIsPrimitive(t) ==
  \/ t.node = "Ident" /\ t.name \in {"string", "int", "bool"}
  \/ t.node = "StarExpr" /\ t.x.node = "Ident" /\ t.x.name \in {"string", "int", "bool"}

RefIsStruct(t) ==
  \/ t.node = "StructType"
  \/ t.node = "Ident" /\ t.name \in DOMAIN Decls
  \/ t.node = "StarExpr" /\ t.x.node = "Ident" /\ t.x.name \in DOMAIN Decls

RefFieldsOf(t) ==
  IF t.node = "StructType" THEN t.fields
  ELSE IF t.node = "Ident" THEN Decls[t.name].fields
  ELSE Decls[t.x.name].fields

\* Every leaf of the struct is a string, int or bool, directly, behind a
\* pointer or in nested structs.  (Evaluated on finished walks only.)
RECURSIVE PrimitiveLeavesOnly(_)
PrimitiveLeavesOnly(fs) ==
  \A i \in 1..Len(fs) :
    \/ RefIsPrimitive(fs[i].type)
    \/ RefIsStruct(fs[i].type) /\ PrimitiveLeavesOnly(RefFieldsOf(fs[i].type))

\* The expected chains: one per declared name of each leaf field, in
\* declaration order, depth first.
RECURSIVE RefChains(_, _)
RECURSIVE RefNameChains(_, _, _)
RefTypeChains(t, chain) ==
  IF RefIsPrimitive(t) THEN <<chain>>
  ELSE IF RefIsStruct(t) THEN RefChains(RefFieldsOf(t), chain)
  ELSE <<>>

RefNameChains(f, ns, chain) ==
  IF ns = <<>> THEN <<>>
  ELSE RefTypeChains(f.type, Append(chain, RefSegment(f, Head(ns))))
         \o RefNameChains(f, Tail(ns), chain)

RefChains(fs, chain) ==
  IF fs = <<>> THEN <<>>
  ELSE (IF Head(fs).names = <<>> THEN RefTypeChains(Head(fs).type, chain)
        ELSE RefNameChains(Head(fs), Head(fs).names, chain))
         \o RefChains(Tail(fs), chain)

RefEnvKey(chain) ==
  ToUpper(Join((IF prefixFlag # <<>> THEN <<prefixFlag>> ELSE <<>>) \o chain, <<"_">>))

EnvKeys == [i \in 1..Len(vars) |-> Path(vars[i])]

\* C8: for a struct with primitive leaves only, the finished walk's list has
\* one entry per declared name of each leaf field, in declaration order,
\* each with the upper-cased underscore-join of prefix, ancestors and leaf.
C8_EnvKeysOfStruct ==
  (wpc = "done" /\ PrimitiveLeavesOnly(configStruct)) =>
    EnvKeys = [i \in 1..Len(RefChains(configStruct, <<>>)) |->
                 RefEnvKey(RefChains(configStruct, <<>>)[i])]

\* C9: for every named field processField is called on, the walk continues
\* (no runtime fault) and fieldName is the tag's yaml name when there is a
\* non-empty one, else the lower-cased field name.
C9_SegmentOfNamedField ==
  field.names # <<>> =>
    (wpc # "panic" /\ fieldName = RefSegment(field, field.names[1]))

\* C10: the recursion processField -> processStructFields ends: the walk
\* never exhausts the stack.
C10_WalkTerminates == wpc # "overflow"

====
